---------------------------- MODULE Spec2Model ----------------------------
(***************************************************************************)
(* Model of copr.v3.helpers: the polling loop wait() and the predicate     *)
(* succeeded() (src/python/copr/v3/helpers.py).                            *)
(*                                                                         *)
(* One call of wait() is a state machine whose program counter pc walks    *)
(* the statements of the while loop: the for loop over watched.copy()      *)
(* (one Fetch step per build id), the callback, the "not watched" test,    *)
(* the timeout test and the sleep.  The clock time.time() is the variable  *)
(* now; it advances while a fetch is in flight and while sleeping.         *)
(***************************************************************************)
EXTENDS Integers, Sequences, FiniteSets

\* ------------------------------------------------------------- bounds
MaxBuilds == 2      \* longest input list of builds
MaxRounds == 3      \* poll rounds explored before the model stops sleeping
MaxTimeout == 2     \* largest timeout argument
StuckTimeout == 5    \* the timeout of the run whose build never ends
MaxWebBuilds == 2   \* most rows the build table of the web application gets

\* ------------------------------------------------------------- domains
BuildIds == {1, 2}

\* The interval arguments tried: busy polling and a real pause.
Intervals == {0, 1}

\* How long one proxy.get() can take, in clock units.
FetchTimes == {0, 1}

\* The states the frontend reports.  "running" stands for every state that
\* none of the tests at lines 112-117 names (pending, importing, ...).
FetchedStates == {"running", "succeeded", "skipped", "failed", "canceled", "unknown"}

\* The state carried by the builds handed to wait(); wait() never reads it.
InputStates == {"running", "succeeded"}

\* What a waitable can be: one Munch, a plain list, or a helpers.List.
Kinds == {"munch", "list", "List"}

\* The order in which the munches dict iterates its keys: "insertion" when
\* they come out as they were inserted, "hash" when they come out in another
\* order, by their hashes.  A dict of CPython 3.6 or Python 3.7 and later is
\* always in insertion order; a dict of Python 2.7 or of Python 3 before
\* 3.6 is in the order of the hashes, which may or may not be the order of
\* insertion.
DictOrders == {"insertion", "hash"}

VARIABLES
    kind,        \* which of Kinds the waitable argument is
    builds,      \* line 98: the builds of the waitable, in input order
    interval,    \* argument interval
    timeout,     \* argument timeout
    hasCallback, \* whether a callback was passed
    watched,     \* line 99: the set of ids still polled
    munches,     \* line 100: id -> latest Munch (a dict: keys in insertion order)
    failed,      \* line 101: list of ids whose fetched state was "failed"
    terminate,   \* line 102: the deadline
    now,         \* time.time()
    pc,          \* the statement wait() is at, or how it ended
    todo,        \* the ids of watched.copy() the for loop has not visited yet
    result,      \* the list wait() returned (<<>> until it returns)
    round,       \* history: number of the current poll round
    startWatched,\* history: watched as it was when the current round started
    fetchCnt,    \* history: id -> number of fetches in the current round
    lastFetch,   \* history: id -> the Munch the latest proxy.get(id) returned
    cbCount,     \* history: number of callback invocations
    cbArg,       \* history: the list the last callback invocation received
    sleepCount,  \* history: number of time.sleep() calls
    succ,        \* outcome of succeeded(): what it was applied to and what it gave
    dictOrder    \* the order in which the munches dict iterates its keys

\* The web application the tests of test_builds.py drive.
VARIABLES
    openid,      \* test_builds.py line 15: the user of the session, "none" before login
    buildTable,  \* the rows of models.Build, in the order of their ids
    request,     \* the POST the test client has sent and the view has not handled yet
    response     \* history: what the view did with the last request

waitVars == <<kind, builds, interval, timeout, hasCallback, watched, munches, failed,
              terminate, now, pc, todo, result, round, startWatched, fetchCnt,
              lastFetch, cbCount, cbArg, sleepCount, succ, dictOrder>>

webVars == <<openid, buildTable, request, response>>

vars == <<kind, builds, interval, timeout, hasCallback, watched, munches, failed,
          terminate, now, pc, todo, result, round, startWatched, fetchCnt,
          lastFetch, cbCount, cbArg, sleepCount, succ, dictOrder, openid,
          buildTable, request, response>>

\* No request has been sent.
NoRequest == [op |-> "none"]

\* The web application is not used by a caller of wait().
WebIdle ==
    /\ openid = "none"
    /\ buildTable = <<>>
    /\ request = NoRequest
    /\ response = "none"

\* ------------------------------------------------------------- helpers
\* A Munch of a build.  fetchedIn is history: the round whose proxy.get()
\* produced it, 0 for a Munch that came with the waitable.
Munch(id, state, r) == [id |-> id, state |-> state, fetchedIn |-> r]

RECURSIVE SeqsUpTo(_, _)
SeqsUpTo(S, n) ==
    IF n = 0 THEN {<<>>}
    ELSE LET shorter == SeqsUpTo(S, n - 1)
         IN  shorter \cup {Append(s, x) : s \in {t \in shorter : Len(t) = n - 1}, x \in S}

IdsOf(blds) == {blds[i].id : i \in 1..Len(blds)}

\* Mutant of InitialWatched: a build that arrives in a terminal state is not
\* watched at all.
InitialWatchedPending(blds) ==
    {blds[i].id : i \in {j \in 1..Len(blds) :
        blds[j].state \notin {"succeeded", "skipped", "failed", "canceled"}}}

\* line 99: watched = set([build.id for build in builds])
InitialWatched(blds) == IdsOf(blds)

\* Mutant of DictKeys: one key per build, repeated ids included.
DictKeysAll(blds) == [i \in 1..Len(blds) |-> blds[i].id]

\* Keys of dict((build.id, build) for build in builds) where a dict iterates
\* in hash order (Python 2.7, which the module supports through __future__
\* and future.utils, and Python 3 before 3.6): an int hashes to itself and
\* the ids of BuildIds fall into distinct slots of the table, so the keys come
\* out by ascending id whatever the order of the input.
RECURSIVE DictKeysHash(_)
DictKeysHash(blds) ==
    LET ids == IdsOf(blds)
    IN  IF ids = {} THEN <<>>
        ELSE LET m == CHOOSE x \in ids : \A y \in ids : x <= y
             IN  <<m>> \o DictKeysHash(SelectSeq(blds, LAMBDA b : b.id # m))

\* The same keys where a dict keeps insertion order (CPython 3.6, Python 3.7
\* and later): each id at the position of its first occurrence.
RECURSIVE DictKeysInsertion(_)
DictKeysInsertion(blds) ==
    IF blds = <<>> THEN <<>>
    ELSE <<blds[1].id>>
         \o DictKeysInsertion(SelectSeq(Tail(blds), LAMBDA b : b.id # blds[1].id))

\* Mutant of DictKeys: the keys come out by ascending id on every
\* interpreter, as if the values were sorted by id.
DictKeysSorted(blds) == DictKeysHash(blds)

\* Keys of dict((build.id, build) for build in builds) in the order the
\* dict iterates them.
DictKeys(blds) ==
    IF dictOrder = "hash" THEN DictKeysHash(blds) ELSE DictKeysInsertion(blds)

\* The orders the dict of these builds can show: insertion order on every
\* interpreter (on a hash-ordered one when the hashes happen to agree with
\* it), and hash order when that is a different order.
DictOrdersOf(blds) ==
    {o \in DictOrders : o = "hash" => DictKeysHash(blds) # DictKeysInsertion(blds)}

\* The value the dict holds for a key: the build of its last occurrence.
DictInit(blds) ==
    [id \in IdsOf(blds) |->
        LET last == CHOOSE i \in 1..Len(blds) :
                        /\ blds[i].id = id
                        /\ \A j \in (i + 1)..Len(blds) : blds[j].id # id
        IN  blds[last]]

\* Mutant of Values: the builds as they were passed in, not as last fetched.
ValuesStale(m, blds) ==
    LET ks == DictKeys(blds) IN [i \in 1..Len(ks) |-> DictInit(blds)[ks[i]]]

\* Mutant of Values: only the builds that have not ended are listed.
ValuesUnfinished(m, blds) ==
    LET ks == DictKeys(blds)
    IN  SelectSeq([i \in 1..Len(ks) |-> m[ks[i]]],
                  LAMBDA b : b.state \notin {"succeeded", "skipped", "failed", "canceled"})

\* list(munches.values())
Values(m, blds) == LET ks == DictKeys(blds) IN [i \in 1..Len(ks) |-> m[ks[i]]]


\* Mutant of IsFailed: a canceled build counts as failed too.
IsFailedOrCanceled(state) == state \in {"failed", "canceled"}

\* line 112: the states that put the id on the failed list
IsFailed(state) == state \in {"failed"}

\* Mutant of IsTerminal: an unknown build is dropped from watched as well.
IsTerminalOrUnknown(state) ==
    state \in {"succeeded", "skipped", "failed", "canceled", "unknown"}

\* Mutant of IsTerminal: "canceled" is forgotten.
IsTerminalNoCanceled(state) == state \in {"succeeded", "skipped", "failed"}

\* Mutant of IsTerminal: "skipped" is forgotten.
IsTerminalNoSkipped(state) == state \in {"succeeded", "failed", "canceled"}

\* line 114: the states that end the polling of a build
IsTerminal(state) == state \in {"succeeded", "skipped", "failed", "canceled"}

\* Mutant of IsUnknown: the unknown state is not noticed.
IsUnknownNever(state) == FALSE

\* line 116: the state that aborts wait()
IsUnknown(state) == state = "unknown"

\* Mutant of RoundIds: every key of munches is polled, watched or not.
RoundIdsAll(w, m) == DOMAIN m

\* line 105: the ids one round visits, a copy of watched taken at its start
RoundIds(w, m) == w

\* Mutant of TimedOut: the timeout is never noticed.
TimedOutNever(t, n, term) == FALSE

\* Mutant of TimedOut: the deadline itself is not yet a timeout.
TimedOutStrict(t, n, term) == t # 0 /\ n > term

\* Mutant of TimedOut: timeout 0 is not treated as "no timeout".
TimedOutZeroToo(t, n, term) == n >= term

\* line 123: the timeout test
TimedOut(t, n, term) == t # 0 /\ n >= term

\* Mutant of AfterCallback: the timeout is tested before the completion.
AfterCallbackTimeoutFirst == "check_timeout"

\* lines 119-123: the statement that follows the callback is "if not watched"
AfterCallback == "check_done"

\* Mutant of NothingWatched: the loop is left one build early.
NothingWatchedButOne(w) == Cardinality(w) <= 1

\* line 121: not watched
NothingWatched(w) == w = {}

\* lines 136-140: succeeded(builds).  type(builds) == list holds for a plain
\* list only; a Munch and a helpers.List are both wrapped into a one-element
\* list, and reading .state of a helpers.List raises AttributeError.
Succeeded(k, blds) ==
    IF k = "list"
    THEN IF \A i \in 1..Len(blds) : blds[i].state = "succeeded" THEN "true" ELSE "false"
    ELSE IF k = "munch"
    THEN IF blds[1].state = "succeeded" THEN "true" ELSE "false"
    ELSE "AttributeError"

Ended == pc \in {"returned", "error_unknown", "error_timeout", "error_fetch",
                 "error_callback"}

\* ------------------------------------------------------------- initial state
\* The state when the while loop is entered (lines 98-102 have run).
Init ==
    /\ kind \in Kinds
    /\ \E st \in InputStates :
           builds \in SeqsUpTo({Munch(id, st, 0) : id \in BuildIds}, MaxBuilds)
    /\ kind = "munch" => Len(builds) = 1
    /\ interval \in Intervals
    /\ timeout \in 0..MaxTimeout
    /\ hasCallback \in BOOLEAN
    /\ watched = InitialWatched(builds)
    /\ munches = DictInit(builds)
    /\ failed = <<>>
    /\ now = 0
    /\ terminate = now + timeout
    /\ pc = "round"
    /\ todo = {}
    /\ result = <<>>
    /\ round = 0
    /\ startWatched = {}
    /\ fetchCnt = [id \in IdsOf(builds) |-> 0]
    /\ lastFetch = DictInit(builds)
    /\ cbCount = 0
    /\ cbArg = <<>>
    /\ sleepCount = 0
    /\ succ = [of |-> "none", gave |-> "none"]
    /\ dictOrder \in DictOrdersOf(builds)
    /\ WebIdle

\* ------------------------------------------------------------- actions
\* line 104-105: a pass of the while loop starts; watched.copy() is taken.
BeginRound ==
    /\ pc = "round"
    /\ todo' = RoundIds(watched, munches)
    /\ pc' = IF todo' = {} THEN "callback" ELSE "fetch"
    /\ round' = round + 1
    /\ startWatched' = watched
    /\ fetchCnt' = [id \in DOMAIN fetchCnt |-> 0]
    /\ UNCHANGED <<kind, builds, interval, timeout, hasCallback, watched, munches,
                   failed, terminate, now, result, lastFetch, cbCount, cbArg,
                   sleepCount, succ>>
    /\ UNCHANGED <<dictOrder, webVars>>

\* lines 105-117: one iteration of the for loop.  The set is iterated in no
\* particular order; the proxy lookup or proxy.get() may raise (outcome
\* "error"), otherwise it returns a Munch in one of FetchedStates after d
\* time units.
Fetch(id, outcome, d) ==
    /\ pc = "fetch"
    /\ id \in todo
    /\ now' = now + d
    /\ fetchCnt' = [fetchCnt EXCEPT ![id] = @ + 1]
    /\ IF outcome = "error"
       THEN /\ pc' = "error_fetch"
            /\ UNCHANGED <<munches, failed, watched, todo, lastFetch>>
       ELSE /\ munches' = [munches EXCEPT ![id] = Munch(id, outcome, round)]
            /\ lastFetch' = [lastFetch EXCEPT ![id] = Munch(id, outcome, round)]
            /\ failed' = IF IsFailed(outcome) THEN Append(failed, id) ELSE failed
            /\ watched' = IF IsTerminal(outcome) THEN watched \ {id} ELSE watched
            /\ todo' = todo \ {id}
            /\ pc' = IF IsUnknown(outcome) THEN "error_unknown"
                     ELSE IF todo' = {} THEN "callback"
                     ELSE "fetch"
    /\ UNCHANGED <<kind, builds, interval, timeout, hasCallback, terminate, result,
                   round, startWatched, cbCount, cbArg, sleepCount, succ>>
    /\ UNCHANGED <<dictOrder, webVars>>

\* lines 119-120: the callback, when one was given, gets list(munches.values());
\* an exception it raises leaves wait().
Callback(raises) ==
    /\ pc = "callback"
    /\ IF hasCallback
       THEN /\ cbCount' = cbCount + 1
            /\ cbArg' = Values(munches, builds)
            /\ pc' = IF raises THEN "error_callback" ELSE AfterCallback
       ELSE /\ ~raises
            /\ pc' = AfterCallback
            /\ UNCHANGED <<cbCount, cbArg>>
    /\ UNCHANGED <<kind, builds, interval, timeout, hasCallback, watched, munches,
                   failed, terminate, now, todo, result, round, startWatched,
                   fetchCnt, lastFetch, sleepCount, succ>>
    /\ UNCHANGED <<dictOrder, webVars>>

\* lines 121-122 and 126: nothing left to watch, wait() returns the list.
CheckDone ==
    /\ pc = "check_done"
    /\ IF NothingWatched(watched)
       THEN /\ pc' = "returned"
            /\ result' = Values(munches, builds)
       ELSE /\ pc' = "check_timeout"
            /\ UNCHANGED result
    /\ UNCHANGED <<kind, builds, interval, timeout, hasCallback, watched, munches,
                   failed, terminate, now, todo, round, startWatched, fetchCnt,
                   lastFetch, cbCount, cbArg, sleepCount, succ>>
    /\ UNCHANGED <<dictOrder, webVars>>

\* lines 123-124: the timeout test.
CheckTimeout ==
    /\ pc = "check_timeout"
    /\ pc' = IF TimedOut(timeout, now, terminate) THEN "error_timeout" ELSE "sleep"
    /\ UNCHANGED <<kind, builds, interval, timeout, hasCallback, watched, munches,
                   failed, terminate, now, todo, result, round, startWatched,
                   fetchCnt, lastFetch, cbCount, cbArg, sleepCount, succ>>
    /\ UNCHANGED <<dictOrder, webVars>>

\* line 125: time.sleep(interval), then the next pass.
SleepStep ==
    /\ pc = "sleep"
    /\ now' = now + interval
    /\ sleepCount' = sleepCount + 1
    /\ pc' = "round"
    /\ UNCHANGED <<kind, builds, interval, timeout, hasCallback, watched, munches,
                   failed, terminate, todo, result, round, startWatched, fetchCnt,
                   lastFetch, cbCount, cbArg, succ>>
    /\ UNCHANGED <<dictOrder, webVars>>

\* The sleep, explored for MaxRounds rounds.
Sleep == round < MaxRounds /\ SleepStep

\* After wait() has returned, the caller applies succeeded() to the list it
\* returned, or to the waitable it had passed in.
SucceededCall(arg) ==
    /\ pc = "returned"
    /\ succ.of = "none"
    /\ \/ /\ arg = "result"
          /\ succ' = [of |-> arg, gave |-> Succeeded("list", result)]
       \/ /\ arg = "waitable"
          /\ succ' = [of |-> arg, gave |-> Succeeded(kind, builds)]
    /\ UNCHANGED <<kind, builds, interval, timeout, hasCallback, watched, munches,
                   failed, terminate, now, pc, todo, result, round, startWatched,
                   fetchCnt, lastFetch, cbCount, cbArg, sleepCount>>
    /\ UNCHANGED <<dictOrder, webVars>>

Next ==
    \/ BeginRound
    \/ \E id \in BuildIds, outcome \in FetchedStates \cup {"error"}, d \in FetchTimes :
           Fetch(id, outcome, d)
    \/ \E raises \in BOOLEAN : Callback(raises)
    \/ CheckDone
    \/ CheckTimeout
    \/ Sleep
    \/ \E arg \in {"result", "waitable"} : SucceededCall(arg)

Spec == Init /\ [][Next]_vars

\* ------------------------------------------------------------- a stuck build
\* wait() on one build with a callback, interval 1 and timeout StuckTimeout;
\* every proxy.get() returns "running" at once, the callback does not raise
\* and each sleep lasts exactly the interval.
InitStuck ==
    /\ kind \in Kinds
    /\ \E st \in InputStates : builds \in {<<Munch(id, st, 0)>> : id \in BuildIds}
    /\ interval = 1
    /\ timeout = StuckTimeout
    /\ hasCallback = TRUE
    /\ watched = InitialWatched(builds)
    /\ munches = DictInit(builds)
    /\ failed = <<>>
    /\ now = 0
    /\ terminate = now + timeout
    /\ pc = "round"
    /\ todo = {}
    /\ result = <<>>
    /\ round = 0
    /\ startWatched = {}
    /\ fetchCnt = [id \in IdsOf(builds) |-> 0]
    /\ lastFetch = DictInit(builds)
    /\ cbCount = 0
    /\ cbArg = <<>>
    /\ sleepCount = 0
    /\ succ = [of |-> "none", gave |-> "none"]
    /\ dictOrder \in DictOrdersOf(builds)
    /\ WebIdle

NextStuck ==
    \/ BeginRound
    \/ \E id \in BuildIds : Fetch(id, "running", 0)
    \/ Callback(FALSE)
    \/ CheckDone
    \/ CheckTimeout
    \/ SleepStep

\* wait() is one thread that runs until it returns or raises.
SpecStuck == InitStuck /\ [][NextStuck]_vars /\ WF_vars(NextStuck)

\* ------------------------------------------------------------- a moving clock
\* wait() on a clock that advances between two rounds: the interval is above
\* 0, or it is 0 and every proxy.get() that returns takes time (a proxy
\* lookup or a proxy.get() that raises ends wait() whatever time it took).
\* Rounds are followed up to LiveRounds, which a call with a timeout never
\* needs: after r rounds at least r - 1 clock units have elapsed.
LiveRounds == MaxTimeout + 2

InitLive ==
    /\ kind = "list"
    /\ builds \in SeqsUpTo({Munch(id, "running", 0) : id \in BuildIds}, MaxBuilds)
    /\ interval \in Intervals
    /\ timeout \in 0..MaxTimeout
    /\ hasCallback \in BOOLEAN
    /\ watched = InitialWatched(builds)
    /\ munches = DictInit(builds)
    /\ failed = <<>>
    /\ now = 0
    /\ terminate = now + timeout
    /\ pc = "round"
    /\ todo = {}
    /\ result = <<>>
    /\ round = 0
    /\ startWatched = {}
    /\ fetchCnt = [id \in IdsOf(builds) |-> 0]
    /\ lastFetch = DictInit(builds)
    /\ cbCount = 0
    /\ cbArg = <<>>
    /\ sleepCount = 0
    /\ succ = [of |-> "none", gave |-> "none"]
    /\ dictOrder \in DictOrdersOf(builds)
    /\ WebIdle

LiveSleep == round < LiveRounds /\ SleepStep

NextLive ==
    \/ BeginRound
    \/ \E id \in BuildIds, outcome \in FetchedStates \cup {"error"}, d \in FetchTimes :
           /\ outcome = "error" \/ interval > 0 \/ d > 0
           /\ Fetch(id, outcome, d)
    \/ \E raises \in BOOLEAN : Callback(raises)
    \/ CheckDone
    \/ CheckTimeout
    \/ LiveSleep

\* wait() is one thread that runs until it returns or raises.
SpecLive == InitLive /\ [][NextLive]_vars /\ WF_vars(NextLive)

\* ------------------------------------------------------------- the web views
\* The fixtures of test_builds.py: f_users, f_coprs and f_copr_permissions.
Users == {"u1", "u2", "u3"}
Coprs == {"c1", "c2", "c3"}

\* The owner of each copr, as the URLs of the tests name it.
CoprOwner == [c \in Coprs |-> IF c = "c1" THEN "u1" ELSE "u2"]

\* The builder permission of a user on a copr: u1 is approved on c2 and has
\* asked for c3; nobody else has asked for anything.
CoprPermission ==
    [uc \in Users \X Coprs |->
        IF uc = <<"u1", "c2">> THEN "approved"
        ELSE IF uc = <<"u1", "c3">> THEN "request"
        ELSE "none"]

\* What an add_build form can carry in its pkgs field.
Pkgs == {"http://testing", "http://other"}

\* A row of models.Build; canceled is False when the row is created.
BuildRow(c, u, p) == [copr |-> c, user |-> u, pkgs |-> p, canceled |-> FALSE]

\* Whether the view lets user build in copr.
CanBuildRequested(user, copr) ==
    \/ CoprOwner[copr] = user
    \/ CoprPermission[<<user, copr>>] \in {"approved", "request"}

CanBuild(user, copr) ==
    \/ CoprOwner[copr] = user
    \/ CoprPermission[<<user, copr>>] = "approved"

\* Whether the view lets user cancel the build of row.
CanCancelCoprOwner(user, row) == user = CoprOwner[row.copr]

CanCancel(user, row) == user = row.user

\* The web application before a test has logged in: no session, no build.
InitWeb ==
    /\ WebIdle
    /\ kind = "list"
    /\ builds = <<>>
    /\ interval = 0
    /\ timeout = 0
    /\ hasCallback = FALSE
    /\ watched = {}
    /\ munches = <<>>
    /\ failed = <<>>
    /\ terminate = 0
    /\ now = 0
    /\ pc = "not_called"
    /\ todo = {}
    /\ result = <<>>
    /\ round = 0
    /\ startWatched = {}
    /\ fetchCnt = <<>>
    /\ lastFetch = <<>>
    /\ cbCount = 0
    /\ cbArg = <<>>
    /\ sleepCount = 0
    /\ succ = [of |-> "none", gave |-> "none"]
    /\ dictOrder = "insertion"

\* session_transaction(): the session gets the openid of a user.
Login(u) ==
    /\ request = NoRequest
    /\ openid' = u
    /\ UNCHANGED <<buildTable, request, response>>
    /\ UNCHANGED waitVars

\* The test client posts the add_build form of copr c with pkgs p.
PostAddBuild(c, p) ==
    /\ request = NoRequest
    /\ openid # "none"
    /\ Len(buildTable) < MaxWebBuilds
    /\ request' = [op |-> "add_build", copr |-> c, pkgs |-> p]
    /\ UNCHANGED <<openid, buildTable, response>>
    /\ UNCHANGED waitVars

\* The test client posts cancel_build for the build with id b.
PostCancelBuild(b) ==
    /\ request = NoRequest
    /\ openid # "none"
    /\ b \in DOMAIN buildTable
    /\ request' = [op |-> "cancel_build", build |-> b]
    /\ UNCHANGED <<openid, buildTable, response>>
    /\ UNCHANGED waitVars

\* The add_build view handles the request.
AddBuild ==
    /\ request.op = "add_build"
    /\ IF CanBuild(openid, request.copr)
       THEN /\ buildTable' = Append(buildTable,
                                    BuildRow(request.copr, openid, request.pkgs))
            /\ response' = "build_added"
       ELSE /\ response' = "add_refused"
            /\ UNCHANGED buildTable
    /\ request' = NoRequest
    /\ UNCHANGED openid
    /\ UNCHANGED waitVars

\* The cancel_build view handles the request.
CancelBuild ==
    /\ request.op = "cancel_build"
    /\ IF CanCancel(openid, buildTable[request.build])
       THEN /\ buildTable' = [buildTable EXCEPT ![request.build].canceled = TRUE]
            /\ response' = "build_canceled"
       ELSE /\ response' = "cancel_refused"
            /\ UNCHANGED buildTable
    /\ request' = NoRequest
    /\ UNCHANGED openid
    /\ UNCHANGED waitVars

NextWeb ==
    \/ \E u \in Users : Login(u)
    \/ \E c \in Coprs, p \in Pkgs : PostAddBuild(c, p)
    \/ \E b \in 1..MaxWebBuilds : PostCancelBuild(b)
    \/ AddBuild
    \/ CancelBuild

SpecWeb == InitWeb /\ [][NextWeb]_vars

\* ------------------------------------------------------------- vocabulary
\* The terminal statuses, as the specification lists them.
TerminalStates == {"succeeded", "skipped", "failed", "canceled"}

\* The input ids are pairwise distinct.
DistinctIds == Cardinality(IdsOf(builds)) = Len(builds)

\* Time elapsed since wait() was entered (the clock read 0 then).
Elapsed == now

\* The for loop of the current round has visited every id it had to.
FetchesDone == pc \in {"callback", "check_done", "check_timeout", "sleep",
                       "returned", "error_timeout", "error_callback"}

\* The latest fetch of id returned a terminal status.
FetchedTerminal(id) ==
    lastFetch[id].fetchedIn >= 1 /\ lastFetch[id].state \in TerminalStates

\* ------------------------------------------------------------- claims
\* C1: for a non-empty list of builds with pairwise distinct ids, once the
\* latest fetched status of every build is terminal wait() neither sleeps,
\* polls again nor times out, and the list it returns holds exactly one
\* snapshot per input build, the last one fetched for it, a terminal one.
C1_ReturnsOneFinalSnapshotPerJob ==
    (builds # <<>> /\ DistinctIds) =>
        /\ (\A i \in 1..Len(builds) : FetchedTerminal(builds[i].id))
              => pc \in {"callback", "error_callback", "check_done", "returned"}
        /\ pc = "returned" =>
              /\ Len(result) = Len(builds)
              /\ \A i \in 1..Len(builds) :
                    LET at == {k \in 1..Len(result) : result[k].id = builds[i].id}
                    IN  /\ Cardinality(at) = 1
                        /\ \A k \in at : /\ result[k] = lastFetch[builds[i].id]
                                          /\ FetchedTerminal(builds[i].id)

\* Two builds with distinct ids that ended in different rounds were returned.
C1_Witness ==
    /\ pc = "returned"
    /\ Len(builds) = 2
    /\ DistinctIds
    /\ Len(result) = 2
    /\ result[1].fetchedIn # result[2].fetchedIn

\* The lists wait() has handed out so far: the one it returned and the one
\* the latest callback invocation received.
Delivered ==
    (IF pc = "returned" THEN {result} ELSE {}) \cup (IF cbCount > 0 THEN {cbArg} ELSE {})

\* Position of the first build with this id in the input.
FirstPos(id) ==
    CHOOSE i \in 1..Len(builds) :
        builds[i].id = id /\ \A j \in 1..(i - 1) : builds[j].id # id

\* C2: for builds with pairwise distinct ids, in every list handed out the
\* snapshot of input build i precedes the snapshot of input build j for
\* input positions i < j.
C2_InputOrderForAllPositions ==
    DistinctIds =>
        \A L \in Delivered :
            \A i, j \in 1..Len(builds) :
                i < j => \E k, l \in 1..Len(L) :
                            k < l /\ L[k].id = builds[i].id /\ L[l].id = builds[j].id

\* C2 where it holds: every list handed out holds one snapshot per distinct
\* id, and when the dict iterates in insertion order (as it always does on
\* Python 3.7 and later) the snapshots of builds with pairwise distinct ids
\* are in the input order, position by position.
C2_FirstOccurrenceOrder ==
    \A L \in Delivered :
        /\ Len(L) = Cardinality(IdsOf(builds))
        /\ {L[k].id : k \in 1..Len(L)} = IdsOf(builds)
        /\ dictOrder = "insertion" =>
              /\ \A k, l \in 1..Len(L) :
                    k < l => FirstPos(L[k].id) < FirstPos(L[l].id)
              /\ DistinctIds => \A i \in 1..Len(builds) : L[i].id = builds[i].id

\* Returned: two builds, the larger id first in the input, and the second
\* build ended a round before the first one.
C2_Witness ==
    /\ dictOrder = "insertion"
    /\ pc = "returned"
    /\ Len(builds) = 2
    /\ builds[1].id > builds[2].id
    /\ Len(result) = 2
    /\ result[1].id = builds[1].id
    /\ result[2].fetchedIn < result[1].fetchedIn

\* C3: once a fetch has returned "unknown", wait() has failed: no id still to
\* visit in that round was fetched, the round's callback and sleep did not
\* happen (so callbacks and sleeps number one less than the rounds), and no
\* list was returned.  For the status sequence running, unknown that is round
\* 2, one callback and one sleep.
C3_UnknownAbortsAtOnce ==
    \A id \in DOMAIN lastFetch :
        (lastFetch[id].fetchedIn >= 1 /\ lastFetch[id].state = "unknown") =>
            /\ pc = "error_unknown"
            /\ lastFetch[id].fetchedIn = round
            /\ \A other \in todo : fetchCnt[other] = 0
            /\ fetchCnt[id] = 1
            /\ cbCount = (IF hasCallback THEN round - 1 ELSE 0)
            /\ sleepCount = round - 1
            /\ result = <<>>
            /\ succ.of = "none"

\* One build was fetched as running in round 1 and as unknown in round 2.
C3_Witness ==
    /\ pc = "error_unknown"
    /\ Len(builds) = 1
    /\ hasCallback
    /\ round = 2
    /\ lastFetch[builds[1].id].state = "unknown"
    /\ cbCount = 1
    /\ sleepCount = 1

\* C4: with timeout > 0, wait() never goes to sleep at the end of a round
\* when the elapsed time has reached the timeout and a build is still
\* watched: it fails with the timeout error, without another sleep.
C4_TimeoutAtEndOfRound ==
    /\ pc = "sleep" => ~(timeout > 0 /\ Elapsed >= timeout)
    /\ pc = "error_timeout" =>
          /\ timeout > 0
          /\ Elapsed >= timeout
          /\ watched # {}
          /\ sleepCount = round - 1

\* The timeout error was raised with the elapsed time exactly at the timeout.
C4_Witness ==
    /\ pc = "error_timeout"
    /\ timeout > 0
    /\ Elapsed = timeout
    /\ watched # {}

\* C5: with timeout = 0 wait() never fails with the timeout error; it ends
\* by returning with nothing watched, on an unknown status, on an error of a
\* fetch, or on an error of the callback.
C5_NoTimeoutWhenZero ==
    timeout = 0 =>
        /\ pc # "error_timeout"
        /\ Ended =>
              \/ pc = "returned" /\ watched = {}
              \/ pc = "error_unknown"
                 /\ \E id \in DOMAIN lastFetch : lastFetch[id].state = "unknown"
              \/ pc = "error_fetch"
              \/ pc = "error_callback" /\ hasCallback

\* With timeout 0 the clock has advanced by three units over three rounds and
\* wait() is about to sleep again.
C5_Witness ==
    /\ timeout = 0
    /\ pc = "sleep"
    /\ round >= 3
    /\ Elapsed >= 3

\* C6: a build whose latest fetch returned a terminal status is not fetched
\* again and its snapshot is not replaced, and every list handed out from
\* then on (to a callback, or as the return value) holds that snapshot.
C6_TerminalNeverRefetched ==
    [][\A id \in DOMAIN lastFetch :
          FetchedTerminal(id) =>
              /\ lastFetch'[id] = lastFetch[id]
              /\ munches'[id] = lastFetch[id]
              /\ fetchCnt'[id] <= fetchCnt[id]
              /\ id \notin watched'
              /\ cbCount' > cbCount =>
                    \E k \in 1..Len(cbArg') : cbArg'[k] = lastFetch[id]
              /\ (pc' = "returned" /\ pc # "returned") =>
                    \E k \in 1..Len(result') : result'[k] = lastFetch[id]]_vars

\* A build ended in round 1, the other one two rounds later, and the list
\* returned in round 3 still holds the snapshot of round 1.
C6_Witness ==
    /\ pc = "returned"
    /\ round = 3
    /\ \E k \in 1..Len(result) : result[k].fetchedIn = 1
    /\ \E k \in 1..Len(result) : result[k].fetchedIn = 3

\* The number of rounds whose for loop has completed and whose callback
\* statement has been passed.
CallbacksDue ==
    IF pc \in {"fetch", "callback", "error_unknown", "error_fetch"}
    THEN round - 1
    ELSE round

\* C7 as stated: a callback is invoked once in every poll round, each time
\* with a list as long as the list of builds passed to wait().
C7_CallbackGetsOneEntryPerInputJob ==
    hasCallback =>
        /\ cbCount = CallbacksDue
        /\ cbCount > 0 => Len(cbArg) = Len(builds)

\* C7 amended: a callback is invoked once in every poll round, each time with
\* a list that has one entry per distinct id among the builds passed to
\* wait() (as many as the builds when their ids are pairwise distinct).
C7_CallbackOncePerRound ==
    /\ hasCallback =>
          /\ cbCount = CallbacksDue
          /\ cbCount > 0 =>
                /\ Len(cbArg) = Cardinality(IdsOf(builds))
                /\ DistinctIds => Len(cbArg) = Len(builds)
    /\ ~hasCallback => cbCount = 0

\* Three rounds, three callbacks, the last one in the round that emptied the
\* watched set, each with both builds although one had ended in round 1.
C7_Witness ==
    /\ pc = "returned"
    /\ hasCallback
    /\ round = 3
    /\ cbCount = 3
    /\ Len(builds) = 2
    /\ Len(cbArg) = 2
    /\ \E k \in 1..2 : cbArg[k].fetchedIn = 1

\* C8: within a round no id is fetched twice and no id outside the set
\* watched at the start of the round is fetched; when the for loop of the
\* round has completed, every id watched at its start was fetched once.
C8_OneFetchPerWatchedJob ==
    round >= 1 =>
        \A id \in DOMAIN fetchCnt :
            /\ fetchCnt[id] <= 1
            /\ fetchCnt[id] = 1 => id \in startWatched
            /\ (FetchesDone /\ id \in startWatched) => fetchCnt[id] = 1

\* Round 2 of two builds has completed its fetches: the build that ended in
\* round 1 was not fetched, the other one once.
C8_Witness ==
    /\ pc = "callback"
    /\ round = 2
    /\ Cardinality(DOMAIN fetchCnt) = 2
    /\ Cardinality(startWatched) = 1
    /\ \E id \in DOMAIN fetchCnt : id \notin startWatched /\ fetchCnt[id] = 0
    /\ \A id \in startWatched : fetchCnt[id] = 1

\* C9: a list is returned only with nothing left to watch and every snapshot
\* in it terminal; when wait() ends in any other way no list is returned.
C9_NoPartialSuccess ==
    /\ pc = "returned" =>
          /\ watched = {}
          /\ Len(result) = Cardinality(IdsOf(builds))
          /\ \A k \in 1..Len(result) :
                result[k].state \in TerminalStates /\ result[k].fetchedIn >= 1
    /\ pc # "returned" => result = <<>> /\ succ.of = "none"

\* wait() timed out after one of two builds had succeeded: no list.
C9_Witness ==
    /\ pc = "error_timeout"
    /\ result = <<>>
    /\ \E id \in DOMAIN lastFetch :
          lastFetch[id].state = "succeeded" /\ lastFetch[id].fetchedIn >= 1
    /\ watched # {}

\* What succeeded() was applied to.
SucceededArg == IF succ.of = "result" THEN result ELSE builds

\* C10: succeeded(builds) is true exactly when every build of its argument
\* has state "succeeded".
C10_SucceededIffAllSucceeded ==
    succ.of # "none" =>
        (succ.gave = "true" <=>
            \A i \in 1..Len(SucceededArg) : SucceededArg[i].state = "succeeded")

\* C10, the scenario: A succeeds at its first poll, B fails at its second,
\* interval 0 and timeout 0; wait([A, B]) returns A:succeeded and B:failed
\* (as [A, B] where the dict keeps insertion order) and succeeded() of that
\* list is false.
C10_ScenarioSucceededThenFailed ==
    ( /\ Len(builds) = 2
      /\ DistinctIds
      /\ interval = 0
      /\ timeout = 0
      /\ lastFetch[builds[1].id] = Munch(builds[1].id, "succeeded", 1)
      /\ lastFetch[builds[2].id] = Munch(builds[2].id, "failed", 2)
      /\ pc = "returned" ) =>
        /\ Len(result) = 2
        /\ {result[1], result[2]} = {lastFetch[builds[1].id], lastFetch[builds[2].id]}
        /\ dictOrder = "insertion" =>
              result = <<lastFetch[builds[1].id], lastFetch[builds[2].id]>>
        /\ succ.of = "result" => succ.gave = "false"

\* The scenario of C10 has run and succeeded() was applied to its result.
C10_ScenarioReached ==
    /\ Len(builds) = 2
    /\ interval = 0
    /\ timeout = 0
    /\ pc = "returned"
    /\ Len(result) = 2
    /\ result[1] = Munch(builds[1].id, "succeeded", 1)
    /\ result[2] = Munch(builds[2].id, "failed", 2)
    /\ succ = [of |-> "result", gave |-> "false"]

\* The elements of a list.
SeqSet(q) == {q[i] : i \in 1..Len(q)}

\* The ids whose latest fetch returned one of the given states.
FetchedAs(states) ==
    {id \in DOMAIN lastFetch :
        lastFetch[id].fetchedIn >= 1 /\ lastFetch[id].state \in states}

\* The view has just handled the request that was in flight.
Handled(op) == request.op = op /\ request'.op = "none"

\* C11: a cancel_build request sets the canceled flag of its build, and changes
\* nothing else, when the user of the session is the user who submitted that
\* build; for any other user it leaves the whole build table as it was.
C11_OnlySubmitterCancels ==
    [][Handled("cancel_build") =>
          IF openid = buildTable[request.build].user
          THEN /\ buildTable'[request.build].canceled
               /\ buildTable' = [buildTable EXCEPT ![request.build].canceled = TRUE]
          ELSE buildTable' = buildTable]_vars

\* A user who did not submit a build has asked to cancel it and it is not
\* canceled, while another build was canceled by its submitter.
C11_Witness ==
    /\ response = "cancel_refused"
    /\ \E b \in DOMAIN buildTable :
           buildTable[b].user # openid /\ ~buildTable[b].canceled
    /\ \E b \in DOMAIN buildTable : buildTable[b].canceled

\* C12: an add_build request on a copr appends one build, with the submitted
\* pkgs, when the user of the session owns the copr or has an approved builder
\* permission on it; when the permission is only requested, or there is none,
\* the build table stays as it was.
C12_OnlyOwnerOrApprovedBuilds ==
    [][Handled("add_build") =>
          IF \/ CoprOwner[request.copr] = openid
             \/ CoprPermission[<<openid, request.copr>>] = "approved"
          THEN buildTable' = Append(buildTable,
                                    [copr |-> request.copr, user |-> openid,
                                     pkgs |-> request.pkgs, canceled |-> FALSE])
          ELSE /\ CoprPermission[<<openid, request.copr>>] \in {"request", "none"}
               /\ buildTable' = buildTable]_vars

\* u1 has built in c2, where its permission is approved, and has then been
\* refused (in c3, where its permission is only requested).
C12_Witness ==
    /\ response = "add_refused"
    /\ openid = "u1"
    /\ \E b \in DOMAIN buildTable :
           /\ buildTable[b].user = "u1"
           /\ buildTable[b].copr = "c2"
           /\ buildTable[b].pkgs = "http://testing"

\* C13 as stated: the failed list holds exactly the ids whose latest snapshot
\* is failure-terminal, that is failed or canceled.
C13_FailedListHoldsFailedAndCanceled ==
    FetchesDone => SeqSet(failed) = FetchedAs({"failed", "canceled"})

\* C13 amended: a fetch that returns "failed" adds the id to the failed list,
\* once; a fetch that returns "canceled" ends the polling of the build but
\* does not add it.  The failed list holds exactly the ids whose latest
\* snapshot is "failed", and a build that has not ended stays watched
\* whatever the other builds returned.
C13_FailedListHoldsFailedOnly ==
    /\ SeqSet(failed) = FetchedAs({"failed"})
    /\ Len(failed) = Cardinality(SeqSet(failed))
    /\ SeqSet(failed) \cap watched = {}
    /\ \A id \in DOMAIN lastFetch : ~FetchedTerminal(id) => id \in watched

\* One build failed in round 1, the other one was polled again and was
\* canceled in round 2: only the first is on the failed list.
C13_Witness ==
    /\ FetchesDone
    /\ round = 2
    /\ Len(failed) = 1
    /\ lastFetch[failed[1]] = Munch(failed[1], "failed", 1)
    /\ \E id \in DOMAIN lastFetch : lastFetch[id] = Munch(id, "canceled", 2)

\* C14: every watched id has an entry in munches, and watched never grows:
\* a step leaves it a subset of what it was, and an id leaves it only in the
\* step whose fetch of that id returned a terminal status.
C14_WatchedOnlyShrinks ==
    [][/\ watched \subseteq DOMAIN munches
       /\ watched' \subseteq DOMAIN munches'
       /\ watched' \subseteq watched
       /\ \A id \in watched \ watched' :
             /\ lastFetch'[id].state \in TerminalStates
             /\ lastFetch'[id] # lastFetch[id]
             /\ munches'[id] = lastFetch'[id]
             /\ fetchCnt'[id] = fetchCnt[id] + 1]_vars

\* Of two watched builds one has ended and left the watched set, the other
\* is still watched in round 2.
C14_Witness ==
    /\ round = 2
    /\ pc = "fetch"
    /\ Cardinality(DOMAIN munches) = 2
    /\ Cardinality(watched) = 1
    /\ \E id \in DOMAIN munches : id \notin watched /\ FetchedTerminal(id)

\* C15: the end of a round runs callback, completion test, timeout test in
\* that order: with nothing left to watch wait() never reaches the timeout
\* test (it returns, also when a non-zero timeout has been reached), and the
\* timeout error is raised only with a build still watched and after the
\* callback of that round.
C15_CompletionBeforeTimeout ==
    /\ pc \in {"check_timeout", "error_timeout", "sleep"} => watched # {}
    /\ pc \in {"check_done", "check_timeout", "error_timeout"} =>
          cbCount = (IF hasCallback THEN round ELSE 0)
    /\ pc = "error_timeout" => timeout > 0 /\ Elapsed >= timeout
    /\ pc = "returned" => watched = {}

\* wait() returned although the elapsed time was past a non-zero timeout.
C15_Witness ==
    /\ pc = "returned"
    /\ timeout > 0
    /\ Elapsed > timeout
    /\ hasCallback
    /\ cbCount = round

\* The callback of the current round has been invoked.
CallbackDone ==
    hasCallback /\ pc \in {"check_done", "check_timeout", "sleep", "returned",
                           "error_timeout", "error_callback"}

\* C16: when the callback of a round has been invoked, every id watched at
\* the start of the round had been fetched in that round, the sleep of the
\* round had not happened, and the list the callback got holds for every
\* tracked id the latest snapshot fetched: this round's for the ids watched
\* at the start of the round, the final one for the ids that ended earlier.
C16_CallbackSeesWholeRound ==
    CallbackDone =>
        /\ cbCount = round
        /\ todo = {}
        /\ sleepCount = round - 1
        /\ Len(cbArg) = Cardinality(DOMAIN lastFetch)
        /\ \A id \in DOMAIN lastFetch :
              /\ \E k \in 1..Len(cbArg) : cbArg[k] = lastFetch[id]
              /\ id \in startWatched => lastFetch[id].fetchedIn = round
              /\ id \notin startWatched =>
                    /\ lastFetch[id].fetchedIn \in 1..(round - 1)
                    /\ lastFetch[id].state \in TerminalStates

\* The callback of round 2 got one snapshot of round 1 (a build that had
\* ended) and one of round 2.
C16_Witness ==
    /\ CallbackDone
    /\ round = 2
    /\ Len(cbArg) = 2
    /\ \E k \in 1..2 : cbArg[k].fetchedIn = 1 /\ cbArg[k].state \in TerminalStates
    /\ \E k \in 1..2 : cbArg[k].fetchedIn = 2

\* C19: wait() returns or times out only after a full first round: every id
\* has then been fetched at least once, also when the builds came in with a
\* terminal state, and a callback, when given, has been invoked.
C19_AtLeastOneRound ==
    pc \in {"returned", "error_timeout"} =>
        /\ round >= 1
        /\ \A id \in DOMAIN lastFetch : lastFetch[id].fetchedIn >= 1
        /\ \A id \in DOMAIN munches : munches[id].fetchedIn >= 1
        /\ hasCallback => cbCount >= 1
        /\ pc = "returned" => \A k \in 1..Len(result) : result[k].fetchedIn >= 1

\* Builds that came in as "succeeded" were fetched all the same, and wait()
\* timed out in round 1 with the smallest timeout.
C19_Witness ==
    /\ pc = "error_timeout"
    /\ round = 1
    /\ timeout = 1
    /\ builds # <<>>
    /\ \A i \in 1..Len(builds) : builds[i].state = "succeeded"
    /\ \A id \in DOMAIN lastFetch : lastFetch[id].fetchedIn = 1

RECURSIVE SumOver(_, _)
SumOver(f, S) ==
    IF S = {} THEN 0
    ELSE LET x == CHOOSE y \in S : TRUE IN f[x] + SumOver(f, S \ {x})

\* C20: builds that share an id are tracked as one: a round fetches each
\* distinct id once, and every list handed out has one snapshot per distinct
\* id, fewer than the builds passed in.
C20_DuplicateIdsCollapse ==
    ~DistinctIds =>
        /\ \A L \in Delivered :
              /\ Len(L) = Cardinality(IdsOf(builds))
              /\ Len(L) < Len(builds)
              /\ \A k, l \in 1..Len(L) : k # l => L[k].id # L[l].id
        /\ Cardinality(watched) <= Cardinality(IdsOf(builds))
        /\ round >= 1 => SumOver(fetchCnt, DOMAIN fetchCnt) <= Cardinality(startWatched)
        /\ (round = 1 /\ FetchesDone) =>
              SumOver(fetchCnt, DOMAIN fetchCnt) = Cardinality(IdsOf(builds))

\* Two builds with the same id were passed, one fetch was made in round 1 and
\* the list returned has one snapshot.
C20_Witness ==
    /\ pc = "returned"
    /\ Len(builds) = 2
    /\ builds[1].id = builds[2].id
    /\ round = 1
    /\ Len(result) = 1
    /\ SumOver(fetchCnt, DOMAIN fetchCnt) = 1

\* C17: one build that stays "running", timeout StuckTimeout (5) and interval
\* 1 on an exact clock: wait() ends in the timeout error when exactly
\* StuckTimeout time units have elapsed, after StuckTimeout sleeps and
\* StuckTimeout + 1 rounds, each with one callback invocation (6 for 5).
C17_StuckBuildTimesOut ==
    <>[](/\ pc = "error_timeout"
         /\ Elapsed = StuckTimeout
         /\ sleepCount = StuckTimeout
         /\ round = StuckTimeout + 1
         /\ cbCount = StuckTimeout + 1)

\* The stuck run has ended in the timeout error.
C17_Witness ==
    /\ pc = "error_timeout"
    /\ Elapsed = StuckTimeout
    /\ cbCount = StuckTimeout + 1
    /\ \A id \in DOMAIN lastFetch : lastFetch[id] = Munch(id, "running", round)

\* A build whose fetches so far never returned a terminal or unknown status.
Pending(id) ==
    lastFetch[id].fetchedIn = 0 \/ lastFetch[id].state \notin TerminalStates \cup {"unknown"}

\* C18: with a timeout above 0 and a clock that advances between rounds
\* (the interval is above 0, or it is 0 and the fetches take time) every call
\* of wait() ends, whatever the fetches return, and it never needs more than
\* timeout + 1 rounds; with timeout 0 and a build that has not become
\* terminal or unknown, wait() has neither returned nor timed out.
C18_EndsWithinTimeout ==
    /\ timeout > 0 => <>Ended
    /\ [](timeout > 0 => round <= timeout + 1)
    /\ []((timeout = 0 /\ \E id \in DOMAIN lastFetch : Pending(id))
             => pc \notin {"returned", "error_timeout"})

\* A call with interval 0 and the largest timeout slept, polled again and
\* timed out on a build that was still running: the time its fetches took
\* used up the timeout.
C18_Witness ==
    /\ timeout = MaxTimeout
    /\ interval = 0
    /\ pc = "error_timeout"
    /\ sleepCount >= 1
    /\ Elapsed >= timeout
    /\ \E id \in DOMAIN lastFetch : lastFetch[id].state = "running"

=============================================================================
